---------------------------- MODULE Spec2Model ----------------------------
(***************************************************************************)
(* Model of bag/simulation/nutbin.py (NutBinParser): the block reader      *)
(* parse_analysis, the plot-name classifier get_info_from_plotname, the    *)
(* accumulator populate_dict, the reconstructor convert_to_analysis_data   *)
(* and the assembler convert_to_sim_data.                                  *)
(*                                                                         *)
(* Representation.                                                         *)
(*  - A Python dict is an association list, a sequence of [k, v] records   *)
(*    in insertion order (Python dicts iterate in insertion order).        *)
(*  - A signal or sweep-variable name is a sequence of tokens, so that     *)
(*    str.replace('/', '.') is computed token by token.                    *)
(*  - A numpy array is [shape, flat]: its shape and its elements in        *)
(*    row-major (C) order.  np.nan is the value NaN.                       *)
(*  - A plot name is the record of the fields its regular expressions      *)
(*    pick out: the '__mc_' prefix of the analysis name, its swpNN-DDD     *)
(*    tags (DDD as three decimal digits), its type, its environment, and   *)
(*    the inner sweep variable after ': '.  Every plot name matches the    *)
(*    type__environment pattern, and every run of a group has the signals  *)
(*    of run 0.                                                            *)
(*  - combine_ana_sim_envs, AnalysisData and SimData are kept as the       *)
(*    arguments they are called with.                                      *)
(***************************************************************************)
EXTENDS Integers, Sequences, FiniteSets, TLC

VARIABLES
    monte_carlo,   \* self._monte_carlo
    ana_dict,      \* parse_raw_file's ana_dict, filled by populate_dict
    log,           \* history: every populate_dict call, in order
    pc,            \* "read" | "done" | "raised"
    sim_envs,      \* the environment list handed to SimData
    sim_ana,       \* the analysis dict handed to SimData
    f_hdr,         \* parse_analysis: the block header on the stream
    f_bin,         \* parse_analysis: the binary payload on the stream
    f_pos,         \* parse_analysis: samples consumed from the stream
    rd_data        \* parse_analysis: its return value

vars == <<monte_carlo, ana_dict, log, pc, sim_envs, sim_ana,
          f_hdr, f_bin, f_pos, rd_data>>

accVars == <<monte_carlo, ana_dict, log, pc, sim_envs, sim_ana>>
rdVars == <<f_hdr, f_bin, f_pos, rd_data>>

-----------------------------------------------------------------------------
(* Bounds of the model. *)

MaxBlocks == 3      \* blocks per file, accumulator and Monte Carlo specifications
MaxRuns == 3        \* blocks per file, sweep specification
MaxGridRuns == 4    \* blocks per file, grid specification
MaxVars == 2        \* variables per block, reader specification
MaxPoints == 2      \* points per block, reader specification

-----------------------------------------------------------------------------
(* Sequences, association lists. *)

RECURSIVE SeqProd(_)
SeqProd(s) == IF s = <<>> THEN 1 ELSE Head(s) * SeqProd(Tail(s))

RECURSIVE SeqMax(_)
SeqMax(s) == IF Len(s) = 1 THEN s[1]
             ELSE LET m == SeqMax(Tail(s)) IN IF s[1] > m THEN s[1] ELSE m

RECURSIVE Flatten(_)
Flatten(ss) == IF ss = <<>> THEN <<>> ELSE Head(ss) \o Flatten(Tail(ss))

Range(s) == {s[i] : i \in DOMAIN s}

\* key in d
HasKey(d, key) == \E i \in DOMAIN d : d[i].k = key

\* d[key]
Get(d, key) == d[CHOOSE i \in DOMAIN d : d[i].k = key].v

\* d[key] = val: a new key goes last, an old key keeps its place
Put(d, key, val) ==
    IF HasKey(d, key)
    THEN [i \in DOMAIN d |-> IF d[i].k = key THEN [k |-> key, v |-> val] ELSE d[i]]
    ELSE Append(d, [k |-> key, v |-> val])

Keys(d) == [i \in DOMAIN d |-> d[i].k]


-----------------------------------------------------------------------------
(* Plot-name classifier: get_info_from_plotname. *)

\* int(val[-3:]): three decimal digits to an integer
Int3(ddd) == ddd[1] * 100 + ddd[2] * 10 + ddd[3]

\* ana_type after the periodic-steady-state refinement; "" when the code
\* raises NotImplementedError
RefineAnaType(type, inner_sweep) ==
    IF type = "pss"
    THEN IF inner_sweep = <<"freq">> THEN "pss_fd"
         ELSE IF inner_sweep = <<"time">> THEN "pss_td"
         ELSE ""
    ELSE type

GetInfoFromPlotname(plotname) ==
    LET ana_type == RefineAnaType(plotname.type, plotname.inner)
    IN  [raised |-> ana_type = "",
         mc_prefix |-> plotname.mc,
         sim_env |-> plotname.env,
         ana_type |-> ana_type,
         swp_info |-> [i \in DOMAIN plotname.tags |-> plotname.tags[i].lvl],
         swp_combo |-> [i \in DOMAIN plotname.tags |-> Int3(plotname.tags[i].idx)],
         inner_sweep |-> plotname.inner]

-----------------------------------------------------------------------------
(* Accumulator: populate_dict. *)

\* faulty variant: the test of the prefix is inverted
IsIgnoredInverted(mc, info) == mc /\ info.mc_prefix

\* the nominal run of a Monte Carlo simulation is ignored
IsIgnored(mc, info) == mc /\ ~info.mc_prefix

NewGroup(inner_sweep) ==
    [data |-> <<>>, swp_combos |-> <<>>, inner_sweep |-> inner_sweep]

\* faulty variant: the run is inserted at the front
AppendRunFront(grp, data, swp_combo) ==
    [grp EXCEPT !.data = <<data>> \o @,
                !.swp_combos = IF swp_combo /= <<>> THEN Append(@, swp_combo) ELSE @]

\* ['data'].append(data); if swp_combo: ['swp_combos'].append(swp_combo)
AppendRun(grp, data, swp_combo) ==
    [grp EXCEPT !.data = Append(@, data),
                !.swp_combos = IF swp_combo /= <<>> THEN Append(@, swp_combo) ELSE @]

\* the accumulator after populate_dict(ana_dict, plotname, data) returned
PopulateDict(d, mc, info, data) ==
    IF IsIgnored(mc, info) THEN d
    ELSE LET d1 == IF HasKey(d, info.ana_type) THEN d
                   ELSE Put(d, info.ana_type, <<>>)
             envs == Get(d1, info.ana_type)
             envs1 == IF HasKey(envs, info.sim_env) THEN envs
                      ELSE Put(envs, info.sim_env, NewGroup(info.inner_sweep))
             grp == AppendRun(Get(envs1, info.sim_env), data, info.swp_combo)
         IN  Put(d1, info.ana_type, Put(envs1, info.sim_env, grp))

\* one turn of parse_raw_file's loop: a plot name was read, parse_analysis
\* returned data, populate_dict runs (or get_info_from_plotname raises)
ReadBlock(plotname, data) ==
    LET info == GetInfoFromPlotname(plotname)
    IN  /\ pc = "read"
        /\ log' = Append(log, [plotname |-> plotname, data |-> data])
        /\ IF info.raised
           THEN pc' = "raised" /\ ana_dict' = ana_dict
           ELSE pc' = pc /\ ana_dict' = PopulateDict(ana_dict, monte_carlo, info, data)
        /\ UNCHANGED <<monte_carlo, sim_envs, sim_ana, rdVars>>

\* whether (ana_type, sim_env) has a group, and the group
HasGroup(d, ana_type, sim_env) ==
    HasKey(d, ana_type) /\ HasKey(Get(d, ana_type), sim_env)

Group(d, ana_type, sim_env) == Get(Get(d, ana_type), sim_env)

-----------------------------------------------------------------------------
(* numpy. *)

\* np.nan, a value no sample takes
NaN == -9999

\* a 1-D array
Arr1(vec) == [shape |-> <<Len(vec)>>, flat |-> vec]

\* astype(int) of the rational num/den, den > 0: numpy >= 1.20 rounds
\* linspace towards -inf (floor), older numpy truncates towards zero
IntCast(num, den, floor) ==
    IF floor \/ num >= 0 THEN num \div den ELSE -((-num) \div den)

\* faulty variant: the step is (stop - start) / num, as with endpoint=False
LinspaceNoEndpoint(start, stop, num, floor) ==
    [i \in 1..num |-> IntCast(start * num + (i - 1) * (stop - start), num, floor)]

\* np.linspace(start, stop, num, dtype=int) for num >= 1:
\* element i is start + i * (stop - start) / (num - 1), cast to int
Linspace(start, stop, num, floor) ==
    [i \in 1..num |->
        IF num = 1 THEN start
        ELSE IntCast(start * (num - 1) + (i - 1) * (stop - start), num - 1, floor)]

\* faulty variant: the padding goes in front
PadLeft(yvec, n) == [i \in 1..n |-> NaN] \o yvec

\* np.pad(yvec, (0, n), constant_values=np.nan)
Pad(yvec, n) == yvec \o [i \in 1..n |-> NaN]

\* faulty variant: the vectors are stacked last run first
StackReversed(yvecs) ==
    [shape |-> <<Len(yvecs), Len(yvecs[1])>>,
     flat |-> Flatten([i \in DOMAIN yvecs |-> yvecs[Len(yvecs) + 1 - i]])]

\* np.stack of vectors of one length
Stack(yvecs) == [shape |-> <<Len(yvecs), Len(yvecs[1])>>, flat |-> Flatten(yvecs)]

\* np.reshape(arr, shape): raises unless the sizes agree
Reshape(arr, shape) ==
    IF SeqProd(shape) = Len(arr.flat)
    THEN [raised |-> FALSE, shape |-> shape, flat |-> arr.flat]
    ELSE [raised |-> TRUE, shape |-> <<>>, flat |-> <<>>]

\* np.array(swp_combos)[:, i]
Column(swp_combos, i) == [r \in DOMAIN swp_combos |-> swp_combos[r][i]]

-----------------------------------------------------------------------------
(* The grid detector _check_is_md(num_env, swp_vals, rtol, atol, None) of  *)
(* bag/simulation/data.py, from its description: the coordinate tuples of  *)
(* the runs form a regular grid when they are a complete Cartesian product *)
(* of the per-axis value sets; the shape is (num_env, n_1, ..., n_k) and   *)
(* the per-axis vectors are the sorted distinct values.  The coordinates   *)
(* are integers and the tolerances are below 1.  zero_md is the answer for *)
(* no coordinate vector at all, which its description leaves open.         *)

RECURSIVE SortedSeq(_)
SortedSeq(S) ==
    IF S = {} THEN <<>>
    ELSE LET m == CHOOSE x \in S : \A y \in S : x <= y
         IN  <<m>> \o SortedSeq(S \ {m})

CheckIsMd(num_env, swp_vals, zero_md) ==
    LET k == Len(swp_vals)
        n == IF k = 0 THEN 0 ELSE Len(swp_vals[1])
        tuple(r) == [j \in 1..k |-> swp_vals[j][r]]
        axes == [j \in 1..k |-> SortedSeq(Range(swp_vals[j]))]
        sizes == [j \in 1..k |-> Len(axes[j])]
        regular == IF k = 0 THEN zero_md
                   ELSE /\ \A r1, r2 \in 1..n : tuple(r1) = tuple(r2) => r1 = r2
                        /\ SeqProd(sizes) = n
    IN  IF regular
        THEN [is_md |-> TRUE, shape |-> <<num_env>> \o sizes, vals |-> axes]
        ELSE [is_md |-> FALSE, shape |-> <<>>, vals |-> <<>>]

-----------------------------------------------------------------------------
(* Reconstructor: convert_to_analysis_data. *)

\* sig_name.replace('/', '.')
ReplaceSlash(sig_name) ==
    [i \in DOMAIN sig_name |-> IF sig_name[i] = "/" THEN "." ELSE sig_name[i]]

\* f'sweep{idx}' for idx in range(num_swp)
SweepNames(num_swp) == [i \in 1..num_swp |-> <<"sweep", ToString(i - 1)>>]

\* faulty variant: the Monte Carlo rule applies only when no combination was recorded
SweepRuleCombosFirst(nb_dict, ana_type, mc, floor) ==
    LET swp_combos == nb_dict.swp_combos
        ragged == \E r \in DOMAIN swp_combos : Len(swp_combos[r]) /= Len(swp_combos[1])
        num_swp == IF swp_combos = <<>> THEN 0 ELSE Len(swp_combos[1])
        runs == Len(nb_dict.data)
    IN  IF ana_type = "pac"
        THEN [raised |-> ragged, swp_vars |-> << <<"harmonic">> >>, swp_len |-> runs,
              swp_combo_list |-> <<Linspace(-(runs \div 2), runs \div 2, runs, floor)>>]
        ELSE IF mc /\ swp_combos = <<>>
        THEN [raised |-> ragged, swp_vars |-> << <<"monte_carlo">> >>, swp_len |-> runs,
              swp_combo_list |-> <<Linspace(0, runs - 1, runs, floor)>>]
        ELSE [raised |-> ragged, swp_vars |-> SweepNames(num_swp),
              swp_len |-> Len(swp_combos),
              swp_combo_list |-> [i \in 1..num_swp |-> Column(swp_combos, i)]]

\* swp_vars, swp_len and swp_combo_list after the three rules; raised when
\* np.array(swp_combos)[:, i] has no column i
SweepRule(nb_dict, ana_type, mc, floor) ==
    LET swp_combos == nb_dict.swp_combos
        ragged == \E r \in DOMAIN swp_combos : Len(swp_combos[r]) /= Len(swp_combos[1])
        num_swp == IF swp_combos = <<>> THEN 0 ELSE Len(swp_combos[1])
        runs == Len(nb_dict.data)
    IN  IF ana_type = "pac"
        THEN [raised |-> ragged, swp_vars |-> << <<"harmonic">> >>, swp_len |-> runs,
              swp_combo_list |-> <<Linspace(-(runs \div 2), runs \div 2, runs, floor)>>]
        ELSE IF mc
        THEN [raised |-> ragged, swp_vars |-> << <<"monte_carlo">> >>, swp_len |-> runs,
              swp_combo_list |-> <<Linspace(0, runs - 1, runs, floor)>>]
        ELSE [raised |-> ragged, swp_vars |-> SweepNames(num_swp),
              swp_len |-> Len(swp_combos),
              swp_combo_list |-> [i \in 1..num_swp |-> Column(swp_combos, i)]]

\* the runs whose vectors are stacked: nb_dict['data'][i] for i in
\* range(swp_len)
StackedRuns(runs, swp_len) == SubSeq(runs, 1, swp_len)

\* the array of one signal with an outer sweep (swp_len > 0)
StackSignal(yvecs, swp_shape, is_inner) ==
    LET sub_dims == [i \in DOMAIN yvecs |-> Len(yvecs[i])]
        max_dim == SeqMax(sub_dims)
        is_same_len == \A i \in DOMAIN yvecs : sub_dims[i] = sub_dims[1]
        data_shape == swp_shape \o <<max_dim>>
    IN  IF ~is_same_len
        THEN Reshape(Stack([i \in DOMAIN yvecs |-> Pad(yvecs[i], max_dim - sub_dims[i])]),
                     data_shape)
        ELSE IF is_inner
        THEN [raised |-> FALSE, shape |-> <<Len(yvecs[1])>>, flat |-> yvecs[1]]
        ELSE Reshape(Stack(yvecs), data_shape)

\* the array of one signal without outer sweep (swp_len = 0)
SingleSignal(sig_y, swp_shape, is_inner) ==
    IF is_inner THEN [raised |-> FALSE, shape |-> <<Len(sig_y)>>, flat |-> sig_y]
    ELSE Reshape(Arr1(sig_y), swp_shape \o <<Len(sig_y)>>)

\* the loop over the signals of run 0, from signal number i on; acc is
\* [raised, data]
RECURSIVE ParseSignals(_, _, _, _, _, _)
ParseSignals(runs, swp_len, swp_shape, inner_sweep, i, acc) ==
    IF i > Len(runs[1]) \/ acc.raised THEN acc
    ELSE LET sig_name == runs[1][i].k
             new_sig == ReplaceSlash(sig_name)
             used == StackedRuns(runs, swp_len)
             missing == \E r \in DOMAIN used : ~HasKey(used[r], sig_name)
             arr == IF swp_len = 0
                    THEN SingleSignal(runs[1][i].v, swp_shape, new_sig = inner_sweep)
                    ELSE IF missing THEN [raised |-> TRUE, shape |-> <<>>, flat |-> <<>>]
                    ELSE StackSignal([r \in DOMAIN used |-> Get(used[r], sig_name)],
                                     swp_shape, new_sig = inner_sweep)
         IN  ParseSignals(runs, swp_len, swp_shape, inner_sweep, i + 1,
                 IF arr.raised THEN [acc EXCEPT !.raised = TRUE]
                 ELSE [acc EXCEPT !.data =
                          Put(@, new_sig, [shape |-> arr.shape, flat |-> arr.flat])])

\* data.update(swp_combo): one entry per sweep variable
RECURSIVE UpdateCombo(_, _, _, _)
UpdateCombo(data, swp_vars, vals, i) ==
    IF i > Len(swp_vars) THEN data
    ELSE UpdateCombo(Put(data, swp_vars[i], vals[i]), swp_vars, vals, i + 1)

\* AnalysisData(['corner'] + swp_vars, data, is_md), or raised
ConvertToAnalysisData(nb_dict, ana_type, mc, floor, zero_md) ==
    LET rule == SweepRule(nb_dict, ana_type, mc, floor)
        md == CheckIsMd(1, rule.swp_combo_list, zero_md)
        swp_shape == IF md.is_md THEN md.shape ELSE <<rule.swp_len>>
        swp_combo == IF md.is_md THEN md.vals
                     ELSE [i \in DOMAIN rule.swp_vars |-> rule.swp_combo_list]
        data0 == UpdateCombo(<<>>, rule.swp_vars, swp_combo, 1)
        parsed == ParseSignals(nb_dict.data, rule.swp_len, swp_shape,
                               nb_dict.inner_sweep, 1, [raised |-> FALSE, data |-> data0])
        swp_vars == IF nb_dict.inner_sweep /= <<>>
                    THEN Append(rule.swp_vars, nb_dict.inner_sweep)
                    ELSE rule.swp_vars
    IN  IF rule.raised \/ parsed.raised
        THEN [raised |-> TRUE, swp_vars |-> <<>>, data |-> <<>>, is_md |-> FALSE]
        ELSE [raised |-> FALSE, swp_vars |-> << <<"corner">> >> \o swp_vars,
              data |-> parsed.data, is_md |-> md.is_md]

-----------------------------------------------------------------------------
(* Assembler: convert_to_sim_data. *)

\* the environment names of the model, in ascending string order
EnvNames == <<"tb_ff", "tb_tt">>

\* sorted(sim_env_dict.keys())
SortedKeys(sim_env_dict) ==
    SelectSeq(EnvNames, LAMBDA e : HasKey(sim_env_dict, e))

\* sub_ana_dict of one analysis type
SubAnaDict(sim_env_dict, ana_type, mc, floor, zero_md) ==
    [i \in DOMAIN sim_env_dict |->
        [k |-> sim_env_dict[i].k,
         v |-> ConvertToAnalysisData(sim_env_dict[i].v, ana_type, mc, floor, zero_md)]]

\* the loop over nb_data.items(), from analysis type number i on; acc is
\* [raised, sim_envs, ana_dict], and ana_dict[ana_type] holds the arguments
\* of combine_ana_sim_envs
RECURSIVE ConvertLoop(_, _, _, _, _, _)
ConvertLoop(nb_data, mc, floor, zero_md, i, acc) ==
    IF i > Len(nb_data) \/ acc.raised THEN acc
    ELSE LET ana_type == nb_data[i].k
             sim_env_dict == nb_data[i].v
             envs == SortedKeys(sim_env_dict)
             sub == SubAnaDict(sim_env_dict, ana_type, mc, floor, zero_md)
             bad == \E j \in DOMAIN sub : sub[j].v.raised
         IN  ConvertLoop(nb_data, mc, floor, zero_md, i + 1,
                 [raised |-> bad,
                  sim_envs |-> envs,
                  ana_dict |-> IF bad THEN acc.ana_dict
                               ELSE Put(acc.ana_dict, ana_type,
                                        [sub_ana_dict |-> sub, sim_envs |-> envs])])

\* the arguments of SimData(sim_envs, ana_dict, DesignOutput.SPECTRE)
ConvertToSimData(nb_data, mc, floor, zero_md) ==
    ConvertLoop(nb_data, mc, floor, zero_md, 1,
                [raised |-> FALSE, sim_envs |-> <<>>, ana_dict |-> <<>>])

\* end of file: parse_raw_file returns and convert_to_sim_data runs
Finish ==
    /\ pc = "read"
    /\ \E floor \in BOOLEAN, zero_md \in BOOLEAN :
          LET r == ConvertToSimData(ana_dict, monte_carlo, floor, zero_md)
          IN  /\ pc' = IF r.raised THEN "raised" ELSE "done"
              /\ sim_envs' = r.sim_envs
              /\ sim_ana' = r.ana_dict
    /\ UNCHANGED <<monte_carlo, ana_dict, log, rdVars>>

-----------------------------------------------------------------------------
(* Block reader: parse_analysis.  A sample is the complex number [re, im];  *)
(* a sample of a real block has im = 0.                                     *)

\* var_names: field 2 of the first variable line, field 1 of the others
VarNames(var_lines) ==
    [i \in DOMAIN var_lines |-> IF i = 1 THEN var_lines[i][3] ELSE var_lines[i][2]]

\* np.real
Real(z) == [re |-> z.re, im |-> 0]

\* faulty variant: the payload is taken as one contiguous column per variable
SliceContiguous(bin_data, idx, num_vars) ==
    LET n == Len(bin_data) \div num_vars
    IN  [j \in 1..n |-> bin_data[idx * n + j]]

\* bin_data[idx::num_vars], idx 0-based
Slice(bin_data, idx, num_vars) ==
    [j \in 1..((Len(bin_data) - idx + num_vars - 1) \div num_vars) |->
        bin_data[idx + 1 + (j - 1) * num_vars]]

\* the column stored under var_names[idx]
ColumnOf(bin_data, var_name, idx, num_vars) ==
    LET col == Slice(bin_data, idx, num_vars)
    IN  IF var_name = <<"freq">> THEN [j \in DOMAIN col |-> Real(col[j])] ELSE col

\* the loop filling data, from variable number i (1-based) on
RECURSIVE FillData(_, _, _, _)
FillData(bin_data, var_names, i, data) ==
    IF i > Len(var_names) THEN data
    ELSE FillData(bin_data, var_names, i + 1,
                  Put(data, var_names[i],
                      ColumnOf(bin_data, var_names[i], i - 1, Len(var_names))))

\* np.fromfile(f, count=n): at most n samples, from the stream position on
FromFile(bin, pos, n) ==
    SubSeq(bin, pos + 1, IF pos + n <= Len(bin) THEN pos + n ELSE Len(bin))

ParseAnalysis ==
    /\ rd_data = <<>> /\ f_pos = 0
    /\ IF f_hdr.flag \notin {"real", "complex"}
       THEN /\ rd_data' = <<"ValueError">>
            /\ f_pos' = f_pos
       ELSE LET var_names == VarNames(SubSeq(f_hdr.var_lines, 1, f_hdr.num_vars))
                bin_data == FromFile(f_bin, f_pos, f_hdr.num_vars * f_hdr.num_points)
            IN  /\ rd_data' = <<"ok", FillData(bin_data, var_names, 1, <<>>)>>
                /\ f_pos' = f_pos + Len(bin_data)
    /\ UNCHANGED <<f_hdr, f_bin, accVars>>

-----------------------------------------------------------------------------
(* Inputs. *)

TimeName == <<"time">>
SigName == <<"v", "/", "o">>

\* the signals of a block of n points, as parse_analysis returns them
BlockOf(n) ==
    << [k |-> TimeName, v |-> [j \in 1..n |-> j - 1]],
       [k |-> SigName, v |-> [j \in 1..n |-> 10 * n + j]] >>

Blocks == {BlockOf(1), BlockOf(2)}

\* the tag swpLL-DDD of sweep level lvl with index i < 10
Tag(lvl, i) == [lvl |-> lvl, idx |-> <<0, 0, i>>]

PlotName(mc, type, env, tags) ==
    [mc |-> mc, type |-> type, env |-> env, tags |-> tags,
     inner |-> IF type = "dc" THEN <<>> ELSE TimeName]

\* accumulator specification: two analysis types ('dc' without inner sweep,
\* 'pss' over time), two environments, with and without the Monte Carlo
\* prefix
AccPlotNames ==
    {PlotName(mc, type, env, <<>>) :
        mc \in BOOLEAN, type \in {"dc", "pss"}, env \in Range(EnvNames)}

\* Monte Carlo specification: one group, with and without the prefix, with
\* and without an outer sweep tag
MCPlotNames ==
    {PlotName(mc, "tran", "tb_tt", tags) :
        mc \in BOOLEAN, tags \in {<<>>, <<Tag(0, 0)>>, <<Tag(0, 1)>>}}

\* sweep specification: 'tran' and 'pac', with and without an outer sweep tag
SweepPlotNames ==
    {PlotName(TRUE, type, "tb_tt", tags) :
        type \in {"tran", "pac"}, tags \in {<<>>, <<Tag(0, 0)>>, <<Tag(0, 1)>>}}

\* grid specification: two sweep levels
GridPlotNames ==
    {PlotName(FALSE, "tran", "tb_tt", <<Tag(0, i), Tag(1, j)>>) :
        i \in 0..1, j \in 0..1}

\* reader specification
VarNameSet == {<<"freq">>, SigName}
Samples(flag) ==
    IF flag = "complex" THEN {[re |-> 1, im |-> 0], [re |-> 2, im |-> 1]}
    ELSE {[re |-> 1, im |-> 0], [re |-> 2, im |-> 0]}

\* what follows the payload on the stream
Trailer == <<[re |-> 0, im |-> 0]>>

VarLines(names) ==
    [i \in DOMAIN names |->
        IF i = 1 THEN <<"Variables:", "0", names[i], "unit">>
        ELSE <<ToString(i - 1), names[i], "unit">>]

-----------------------------------------------------------------------------
(* Specifications. *)

ReaderIdle ==
    /\ f_hdr = [flag |-> "real", num_vars |-> 0, num_points |-> 0, var_lines |-> <<>>]
    /\ f_bin = <<>>
    /\ f_pos = 0
    /\ rd_data = <<>>

InitParser(modes) ==
    /\ monte_carlo \in modes
    /\ ana_dict = <<>>
    /\ log = <<>>
    /\ pc = "read"
    /\ sim_envs = <<>>
    /\ sim_ana = <<>>
    /\ ReaderIdle

Init == InitParser(BOOLEAN)

Read ==
    \E plotname \in AccPlotNames, data \in Blocks :
        Len(log) < MaxBlocks /\ ReadBlock(plotname, data)

Next == Read \/ Finish

Spec == Init /\ [][Next]_vars

InitMC == InitParser({TRUE})

ReadMC ==
    \E plotname \in MCPlotNames, data \in Blocks :
        Len(log) < MaxBlocks /\ ReadBlock(plotname, data)

NextMC == ReadMC \/ Finish

SpecMC == InitMC /\ [][NextMC]_vars

InitSweep == InitParser(BOOLEAN)

ReadSweep ==
    \E plotname \in SweepPlotNames, data \in Blocks :
        Len(log) < MaxRuns /\ ReadBlock(plotname, data)

NextSweep == ReadSweep \/ Finish

SpecSweep == InitSweep /\ [][NextSweep]_vars

InitGrid == InitParser({FALSE})

ReadGrid ==
    \E plotname \in GridPlotNames, data \in Blocks :
        Len(log) < MaxGridRuns /\ ReadBlock(plotname, data)

NextGrid == ReadGrid \/ Finish

SpecGrid == InitGrid /\ [][NextGrid]_vars

InitReader ==
    /\ monte_carlo = FALSE
    /\ ana_dict = <<>>
    /\ log = <<>>
    /\ pc = "read"
    /\ sim_envs = <<>>
    /\ sim_ana = <<>>
    /\ f_pos = 0
    /\ rd_data = <<>>
    /\ \E flag \in {"real", "complex", "other"}, nv \in 1..MaxVars, np \in 1..MaxPoints :
          \E names \in [1..nv -> VarNameSet], payload \in [1..(nv * np) -> Samples(flag)] :
             /\ f_hdr = [flag |-> flag, num_vars |-> nv, num_points |-> np,
                         var_lines |-> VarLines(names)]
             /\ f_bin = payload \o Trailer

NextReader == ParseAnalysis

SpecReader == InitReader /\ [][NextReader]_vars

-----------------------------------------------------------------------------
(* Vocabulary of the properties. *)

AnaTypes == {"dc", "tran", "pac", "pss", "pss_fd", "pss_td"}
SimEnvs == Range(EnvNames)

\* the populate_dict calls whose plot name classifies to (ana_type, sim_env)
\* and satisfies keep, in arrival order
CallsFor(ana_type, sim_env, keep(_)) ==
    SelectSeq(log, LAMBDA c :
        LET info == GetInfoFromPlotname(c.plotname)
        IN  /\ ~info.raised
            /\ info.ana_type = ana_type
            /\ info.sim_env = sim_env
            /\ keep(c))

DataOf(calls) == [i \in DOMAIN calls |-> calls[i].data]

\* a call is accepted unless Monte Carlo mode is on and the analysis name
\* lacks the '__mc_' prefix
IsAccepted(c) == ~(monte_carlo /\ ~c.plotname.mc)

\* the 'data' list of a key, empty when the key has no group
DataList(ana_type, sim_env) ==
    IF HasGroup(ana_dict, ana_type, sim_env)
    THEN Group(ana_dict, ana_type, sim_env).data
    ELSE <<>>

-----------------------------------------------------------------------------
\* C1: after any sequence of populate_dict calls, the 'data' list of every
\* key (ana_type, sim_env) is the subsequence of the accepted blocks whose
\* plot name classifies to that key, in arrival order; so no block is
\* dropped, duplicated, reordered or filed under another key.
C1_DataIsArrivalOrder ==
    \A ana_type \in AnaTypes, sim_env \in SimEnvs :
        DataList(ana_type, sim_env) = DataOf(CallsFor(ana_type, sim_env, IsAccepted))

\* one key holds two different runs, and a third block went to another key
\* or was refused
C1_Witness ==
    \E t1 \in AnaTypes, e1 \in SimEnvs :
        /\ Len(DataList(t1, e1)) = 2
        /\ DataList(t1, e1)[1] /= DataList(t1, e1)[2]
        /\ \/ \E c \in Range(log) : ~IsAccepted(c)
           \/ \E t2 \in AnaTypes, e2 \in SimEnvs :
                 <<t1, e1>> /= <<t2, e2>> /\ Len(DataList(t2, e2)) = 1

-----------------------------------------------------------------------------
HasPrefix(c) == c.plotname.mc

\* the non-empty outer combinations of calls, in order
CombosOf(calls) ==
    LET tagged == SelectSeq(calls, LAMBDA c : c.plotname.tags /= <<>>)
    IN  [i \in DOMAIN tagged |-> GetInfoFromPlotname(tagged[i].plotname).swp_combo]

\* C2: in Monte Carlo mode the accumulator is what the '__mc_' blocks alone
\* make it: a key has a group exactly when a '__mc_' block classifies to it,
\* the group's runs and combinations are those of the '__mc_' blocks (n such
\* blocks give n runs), and no analysis type is entered without a group; so
\* a block without the prefix changes nothing.
C2_NominalBlocksLeaveNoTrace ==
    monte_carlo =>
        /\ \A ana_type \in AnaTypes, sim_env \in SimEnvs :
              LET calls == CallsFor(ana_type, sim_env, HasPrefix)
              IN  /\ HasGroup(ana_dict, ana_type, sim_env) <=> calls /= <<>>
                  /\ calls /= <<>> =>
                        LET grp == Group(ana_dict, ana_type, sim_env)
                        IN  /\ Len(grp.data) = Len(calls)
                            /\ grp.data = DataOf(calls)
                            /\ grp.swp_combos = CombosOf(calls)
        /\ \A i \in DOMAIN ana_dict : ana_dict[i].v /= <<>>

\* Monte Carlo mode: two '__mc_' runs are in the group and a tagged block
\* without the prefix was read
C2_Witness ==
    /\ monte_carlo
    /\ \E c \in Range(log) : ~HasPrefix(c) /\ c.plotname.tags /= <<>>
    /\ \E ana_type \in AnaTypes, sim_env \in SimEnvs :
          /\ HasGroup(ana_dict, ana_type, sim_env)
          /\ Len(Group(ana_dict, ana_type, sim_env).data) = 2
          /\ Len(log) = 3

-----------------------------------------------------------------------------
(* Vocabulary of the properties of the reconstructed data. *)

\* the keys that have a group, once SimData was built
DoneGroups ==
    IF pc = "done"
    THEN {key \in AnaTypes \X SimEnvs : HasGroup(ana_dict, key[1], key[2])}
    ELSE {}

\* the AnalysisData built for a key, and the group it was built from
AnalysisOf(key) == Get(Get(sim_ana, key[1]).sub_ana_dict, key[2])
GroupOf(key) == Group(ana_dict, key[1], key[2])

\* the outer sweep names: the returned names without 'corner' and without
\* the inner sweep
OuterVars(key) ==
    LET names == AnalysisOf(key).swp_vars
    IN  SubSeq(names, 2,
               Len(names) - (IF GroupOf(key).inner_sweep /= <<>> THEN 1 ELSE 0))

\* the array stored for a signal of the runs
ArrayOf(key, sig_name) == Get(AnalysisOf(key).data, ReplaceSlash(sig_name))

\* the number of rows of an array: its size over its last dimension
NumRows(arr) == SeqProd(SubSeq(arr.shape, 1, Len(arr.shape) - 1))

-----------------------------------------------------------------------------
\* C6: in Monte Carlo mode a group that is not 'pac' and has n runs gets the
\* single outer sweep variable 'monte_carlo' with the values 0, 1, ..., n-1,
\* and n runs are stacked, whatever outer combinations were recorded.
C6_MonteCarloAxis ==
    monte_carlo =>
        \A key \in DoneGroups :
            key[1] /= "pac" =>
                LET n == Len(GroupOf(key).data)
                IN  /\ OuterVars(key) = << <<"monte_carlo">> >>
                    /\ Get(AnalysisOf(key).data, <<"monte_carlo">>) = [i \in 1..n |-> i - 1]
                    /\ NumRows(ArrayOf(key, SigName)) = n

\* Monte Carlo mode: three runs were reconstructed, and an outer
\* combination had been recorded
C6_Witness ==
    /\ monte_carlo
    /\ \E key \in DoneGroups :
          /\ key[1] /= "pac"
          /\ Len(GroupOf(key).data) = 3
          /\ GroupOf(key).swp_combos /= <<>>

-----------------------------------------------------------------------------
\* the values stored for the single outer sweep variable: the detector's
\* axis vector on a regular grid, else the one vector of swp_combo_list
AxisValues(key, name) ==
    LET stored == Get(AnalysisOf(key).data, name)
    IN  IF AnalysisOf(key).is_md THEN stored ELSE stored[1]

\* the integers -h, ..., +h
SymmetricRange(h) == [i \in 1..(2 * h + 1) |-> i - 1 - h]

\* C5 as stated: a 'pac' group with n >= 1 runs gets the single outer sweep
\* variable 'harmonic' whose n values are the integers from -H to +H,
\* H = n // 2, in or out of Monte Carlo mode, with or without combinations.
C5_HarmonicAxisAnyCount ==
    \A key \in DoneGroups :
        key[1] = "pac" =>
            /\ OuterVars(key) = << <<"harmonic">> >>
            /\ AxisValues(key, <<"harmonic">>)
                  = SymmetricRange(Len(GroupOf(key).data) \div 2)

\* C5 amended: the same for an odd number n of runs.
C5_HarmonicAxisOddCount ==
    \A key \in DoneGroups :
        (key[1] = "pac" /\ Len(GroupOf(key).data) % 2 = 1) =>
            /\ OuterVars(key) = << <<"harmonic">> >>
            /\ AxisValues(key, <<"harmonic">>)
                  = SymmetricRange(Len(GroupOf(key).data) \div 2)

\* a 'pac' group of three runs was reconstructed in Monte Carlo mode, with
\* an outer combination recorded
C5_Witness ==
    /\ monte_carlo
    /\ \E key \in DoneGroups :
          /\ key[1] = "pac"
          /\ Len(GroupOf(key).data) = 3
          /\ GroupOf(key).swp_combos /= <<>>
          /\ AxisValues(key, <<"harmonic">>) = <<-1, 0, 1>>

-----------------------------------------------------------------------------
\* the signal names of run 0 other than the inner sweep variable
PlainSignals(key) ==
    {sig_name \in Range(Keys(GroupOf(key).data[1])) :
        ReplaceSlash(sig_name) /= GroupOf(key).inner_sweep}

\* C4 as stated: for every signal of run 0 (the inner sweep variable aside,
\* which is kept once) the number of runs stacked into the output is
\* len(group.data), also when swp_combos is shorter than data and when the
\* group has no outer sweep but more than one run.
C4_EveryRunIsStacked ==
    \A key \in DoneGroups :
        \A sig_name \in PlainSignals(key) :
            NumRows(ArrayOf(key, sig_name)) = Len(GroupOf(key).data)

-----------------------------------------------------------------------------
\* C9 as stated: the number of dimensions of every stacked signal array is
\* the length of the returned sweep-variable name list, whether grid
\* detection succeeds or fails.
C9_DimensionsMatchNames ==
    \A key \in DoneGroups :
        \A sig_name \in PlainSignals(key) :
            Len(ArrayOf(key, sig_name).shape) = Len(AnalysisOf(key).swp_vars)

-----------------------------------------------------------------------------
\* the number of runs of the outer sweep, swp_len: every run in Monte Carlo
\* mode and for 'pac', else one per recorded combination
SweepLength(key) ==
    IF monte_carlo \/ key[1] = "pac"
    THEN Len(GroupOf(key).data)
    ELSE Len(GroupOf(key).swp_combos)

\* the vectors of a signal in the runs of the outer sweep
RunVectors(key, sig_name) ==
    [r \in 1..SweepLength(key) |-> Get(GroupOf(key).data[r], sig_name)]

MaxLength(vecs) == SeqMax([r \in DOMAIN vecs |-> Len(vecs[r])])

SameLength(vecs) == \A r \in DOMAIN vecs : Len(vecs[r]) = Len(vecs[1])

\* a run's samples in the leading places of a row of width w, NaN after
RowOf(vec, w) == [j \in 1..w |-> IF j <= Len(vec) THEN vec[j] ELSE NaN]

\* row r of an array whose last dimension is w
RowAt(arr, r, w) == SubSeq(arr.flat, (r - 1) * w + 1, r * w)

\* the array holds one row per run of the outer sweep, in run order, of
\* the maximum run length, each run's samples first and NaN after
RowsAreRuns(arr, vecs) ==
    LET w == MaxLength(vecs)
    IN  /\ arr.shape[Len(arr.shape)] = w
        /\ NumRows(arr) = Len(vecs)
        /\ \A r \in DOMAIN vecs : RowAt(arr, r, w) = RowOf(vecs[r], w)

\* C7 as stated: with an outer sweep, every signal's array has the maximum
\* run length as inner length and one row per run, in run order: the run's
\* samples, then NaN up to the maximum; with equal lengths row i is run i's
\* vector.
C7_RowsAreRunsEverySignal ==
    \A key \in DoneGroups :
        OuterVars(key) /= <<>> =>
            \A sig_name \in Range(Keys(GroupOf(key).data[1])) :
                RowsAreRuns(ArrayOf(key, sig_name), RunVectors(key, sig_name))

\* C7 amended: the same for every signal except the inner sweep variable
\* when its lengths are equal across the runs, whose array is run 0's
\* vector alone.
C7_RowsAreRunsButInnerSweep ==
    \A key \in DoneGroups :
        OuterVars(key) /= <<>> =>
            \A sig_name \in Range(Keys(GroupOf(key).data[1])) :
                LET vecs == RunVectors(key, sig_name)
                    arr == ArrayOf(key, sig_name)
                IN  IF ReplaceSlash(sig_name) = GroupOf(key).inner_sweep /\ SameLength(vecs)
                    THEN arr = Arr1(vecs[1])
                    ELSE RowsAreRuns(arr, vecs)

\* an outer sweep of three runs was reconstructed whose second run is
\* longer than the first and the third
C7_Witness ==
    \E key \in DoneGroups :
        /\ OuterVars(key) /= <<>>
        /\ SweepLength(key) = 3
        /\ LET vecs == RunVectors(key, SigName)
           IN  Len(vecs[1]) = 1 /\ Len(vecs[2]) = 2 /\ Len(vecs[3]) = 1
        /\ ArrayOf(key, SigName).flat = <<11, NaN, 21, 22, 11, NaN>>

-----------------------------------------------------------------------------
\* the combinations are a complete rectangular grid: pairwise different,
\* and as many as the product of the numbers of values per position
CompleteGrid(combos) ==
    /\ combos /= <<>>
    /\ \A r \in DOMAIN combos : Len(combos[r]) = Len(combos[1])
    /\ \A r1, r2 \in DOMAIN combos : combos[r1] = combos[r2] => r1 = r2
    /\ Len(combos)
          = SeqProd([i \in DOMAIN combos[1] |-> Cardinality(Range(Column(combos, i)))])

\* a comes before b in lexicographic order
LexLess(a, b) ==
    \E i \in DOMAIN a :
        /\ a[i] < b[i]
        /\ \A j \in 1..(i - 1) : a[j] = b[j]

\* the runs arrived in row-major order of their combinations
RowMajor(combos) == \A r \in 1..(Len(combos) - 1) : LexLess(combos[r], combos[r + 1])

\* the stored axis vector of sweep position i (1-based)
AxisOf(key, i) == Get(AnalysisOf(key).data, <<"sweep", ToString(i - 1)>>)

IndexIn(vec, x) == CHOOSE i \in DOMAIN vec : vec[i] = x

\* the row of the array at the coordinates combo, counted in row-major
\* order over the axes, from position i on with row0 rows before
RECURSIVE GridRow(_, _, _, _)
GridRow(key, combo, i, row0) ==
    IF i > Len(combo) THEN row0 + 1
    ELSE GridRow(key, combo, i + 1,
                 row0 * Len(AxisOf(key, i)) + IndexIn(AxisOf(key, i), combo[i]) - 1)

\* every run's signal vector is at the array position of the run's own
\* combination
PlacedByCombo(key) ==
    LET combos == GroupOf(key).swp_combos
        vecs == RunVectors(key, SigName)
        arr == ArrayOf(key, SigName)
        w == MaxLength(vecs)
    IN  /\ AnalysisOf(key).is_md
        /\ \A r \in DOMAIN combos :
              RowAt(arr, GridRow(key, combos[r], 1, 0), w) = RowOf(vecs[r], w)

\* C3 as stated: when the combinations of the runs are a complete
\* rectangular grid, every run's vector is placed at the position of its
\* own combination, in every arrival order of the runs.
C3_PlacedByComboAnyOrder ==
    \A key \in DoneGroups :
        (CompleteGrid(GroupOf(key).swp_combos)
            /\ Len(GroupOf(key).swp_combos) = Len(GroupOf(key).data))
        => PlacedByCombo(key)

\* C3 amended: the same when the runs arrive in row-major order of their
\* combinations.
C3_PlacedByComboRowMajor ==
    \A key \in DoneGroups :
        (CompleteGrid(GroupOf(key).swp_combos)
            /\ Len(GroupOf(key).swp_combos) = Len(GroupOf(key).data)
            /\ RowMajor(GroupOf(key).swp_combos))
        => PlacedByCombo(key)

\* the 2 x 2 grid arrived in row-major order, its second and third run
\* different, and was reconstructed
C3_Witness ==
    \E key \in DoneGroups :
        /\ GroupOf(key).swp_combos = << <<0, 0>>, <<0, 1>>, <<1, 0>>, <<1, 1>> >>
        /\ GroupOf(key).data[2] /= GroupOf(key).data[3]
        /\ ArrayOf(key, SigName).shape = <<1, 2, 2, 2>>

-----------------------------------------------------------------------------
\* C10 as stated: the environment list handed to SimData holds every
\* environment that has a group under any analysis type.
C10_EnvListHoldsEveryEnv ==
    \A key \in DoneGroups :
        \E i \in DOMAIN sim_envs : sim_envs[i] = key[2]

-----------------------------------------------------------------------------
\* parse_analysis returned a mapping
Returned == Len(rd_data) = 2 /\ rd_data[1] = "ok"

\* the name on the k-th variable line
LineName(k) == VarNames(f_hdr.var_lines)[k]

\* payload samples k, k + num_vars, k + 2 * num_vars, ... (k 1-based)
Interleaved(k) ==
    [j \in 1..f_hdr.num_points |-> f_bin[k + (j - 1) * f_hdr.num_vars]]

DistinctNames ==
    \A k1, k2 \in 1..f_hdr.num_vars : LineName(k1) = LineName(k2) => k1 = k2

\* C8 as stated: for num_vars, num_points >= 1 and a payload of
\* num_vars * num_points samples, parse_analysis returns num_vars columns of
\* num_points samples, column k under the name of the k-th variable line
\* holding payload samples k, k + num_vars, ..., and consumes
\* num_vars * num_points samples.
C8_ColumnsAreInterleavedSamples ==
    Returned =>
        /\ Len(rd_data[2]) = f_hdr.num_vars
        /\ \A k \in 1..f_hdr.num_vars :
              /\ HasKey(rd_data[2], LineName(k))
              /\ Get(rd_data[2], LineName(k)) = Interleaved(k)
        /\ f_pos = f_hdr.num_vars * f_hdr.num_points

\* C8 amended: the same when the variable names are pairwise different,
\* except that the column named 'freq' holds the real parts of its samples;
\* num_vars * num_points samples are consumed in every case.
C8_ColumnsOfDistinctNames ==
    Returned =>
        /\ f_pos = f_hdr.num_vars * f_hdr.num_points
        /\ DistinctNames =>
              /\ Len(rd_data[2]) = f_hdr.num_vars
              /\ \A k \in 1..f_hdr.num_vars :
                    /\ HasKey(rd_data[2], LineName(k))
                    /\ Get(rd_data[2], LineName(k))
                          = IF LineName(k) = <<"freq">>
                            THEN [j \in 1..f_hdr.num_points |->
                                     [re |-> Interleaved(k)[j].re, im |-> 0]]
                            ELSE Interleaved(k)

\* a complex block of two variables, 'freq' first, and two points was
\* parsed, the two points of the signal different
C8_Witness ==
    /\ Returned
    /\ f_hdr.flag = "complex"
    /\ f_hdr.num_vars = 2 /\ f_hdr.num_points = 2
    /\ LineName(1) = <<"freq">> /\ LineName(2) = SigName
    /\ f_bin[2] /= f_bin[4]
    /\ f_bin[1].im /= 0

=============================================================================
